---- MODULE Spec2Model ----
(***************************************************************************)
(* Retrieval question answering: langchain/chains/retrieval_qa/base.py.    *)
(*                                                                         *)
(* BaseRetrievalQA._call fetches documents (_get_docs of RetrievalQA or    *)
(* VectorDBQA), hands them with the question to the combine-documents     *)
(* chain and packages the answer, with or without the source documents.   *)
(*                                                                         *)
(* Strings that are assembled (prompts, contexts, answers) are sequences   *)
(* of tokens; a Document is named by its identifier and PageContent gives  *)
(* its text body.  A Python dict is a function whose domain is its keys.   *)
(***************************************************************************)
EXTENDS Integers, Sequences, FiniteSets, TLC

VARIABLES
    obj,         \* the chain object (its pydantic fields), or NoObject
    ctorError,   \* the error the last construction raised, "none" if none
    pc,          \* per invocation of _call: where it is
    inputs,      \* per invocation: the inputs dict it was called with
    question,    \* per invocation: local `question` (line 106)
    docs,        \* per invocation: local `docs` (line 108)
    answer,      \* per invocation: local `answer` (line 109)
    result,      \* per invocation: the dict returned (lines 112/114)
    error,       \* per invocation: the exception that left _call, "none" if none
    backendLog,  \* per invocation: the retriever / vector store calls it made
    combineLog,  \* per invocation: the combine_docs calls it made
    asmPc,       \* the assembly run on its own: "idle", "ready" or "done"
    asmIn,       \* the documents given to the assembly
    asmOut       \* the context the assembly produced

vars == <<obj, ctorError, pc, inputs, question, docs, answer, result, error,
          backendLog, combineLog, asmPc, asmIn, asmOut>>

asmVars == <<asmPc, asmIn, asmOut>>

callVars == <<pc, inputs, question, docs, answer, result, error,
              backendLog, combineLog>>

(***************************************************************************)
(* Bounds and the small sets inputs are drawn from.                        *)
(***************************************************************************)
MaxDocs == 2        \* longest sequence a backend returns
MaxAsmDocs == 3     \* longest sequence given to the assembly

Calls == {"c1", "c2"}
Questions == {"q1", "q2"}
Documents == {"d1", "d2"}
AsmDocuments == {"d1", "d2", "d3", "d4"}

RECURSIVE SeqsUpTo(_, _)
SeqsUpTo(S, n) ==
    IF n = 0 THEN {<<>>}
    ELSE LET shorter == SeqsUpTo(S, n - 1)
         IN shorter \cup {Append(s, x) : s \in {t \in shorter : Len(t) = n - 1}, x \in S}

EmptyDict == [x \in {} |-> x]

\* Python's dict display {k1: v1, k2: v2}: the items are inserted left to
\* right, and a later item with an equal key replaces the earlier value.
RECURSIVE DictDisplay(_)
DictDisplay(items) ==
    IF items = <<>> THEN EmptyDict
    ELSE LET n == Len(items)
             rest == DictDisplay(SubSeq(items, 1, n - 1))
         IN [x \in DOMAIN rest \cup {items[n][1]} |->
                IF x = items[n][1] THEN items[n][2] ELSE rest[x]]

(***************************************************************************)
(* Construction: the pydantic model's fields, defaults and validation.     *)
(***************************************************************************)
DefaultK == 4

BaseFields == {"input_key", "output_key", "return_source_documents"}
VectorDBQAFields == BaseFields \cup {"k", "search_type", "search_kwargs"}
CtorKeywords == VectorDBQAFields \cup {"unknown_field"}

FieldsOf(cls) == IF cls = "VectorDBQA" THEN VectorDBQAFields ELSE BaseFields

InputKeys == {"query", "question"}
OutputKeys == {"result", "source_documents"}
KValues == {0, 2}
SearchTypes == {"similarity", "mmr", "bogus"}
SearchKwargs == {EmptyDict, "fetch_k" :> 20, "k" :> 1}

NoObject == [cls |-> "none"]

\* The keyword arguments of a constructor call: `given` names the keywords
\* that are passed, `kw` holds their values.
CtorArgs ==
    [input_key : InputKeys, output_key : OutputKeys,
     return_source_documents : BOOLEAN, k : KValues,
     search_type : SearchTypes, search_kwargs : SearchKwargs]

\* The field values after defaults are applied.
FieldValues(cls, given, kw) ==
    LET base ==
          [cls |-> cls,
           input_key |-> IF "input_key" \in given THEN kw.input_key ELSE "query",
           output_key |-> IF "output_key" \in given THEN kw.output_key ELSE "result",
           return_source_documents |->
               IF "return_source_documents" \in given
               THEN kw.return_source_documents ELSE FALSE]
    IN IF cls = "VectorDBQA"
       THEN [cls |-> base.cls,
             input_key |-> base.input_key,
             output_key |-> base.output_key,
             return_source_documents |-> base.return_source_documents,
             k |-> IF "k" \in given THEN kw.k ELSE DefaultK,
             search_type |->
                 IF "search_type" \in given THEN kw.search_type ELSE "similarity",
             search_kwargs |->
                 IF "search_kwargs" \in given THEN kw.search_kwargs ELSE EmptyDict]
       ELSE base

\* Config.extra = Extra.forbid: a keyword that is no field is rejected.
ExtraForbidden(cls, given) == given \ FieldsOf(cls) # {}

\* Faulty variant: a validator that accepts every search_type.
validate_search_type_accepts_all(values) == FALSE

\* The root validator: TRUE when it raises ValueError.
validate_search_type(values) ==
    /\ "search_type" \in DOMAIN values
    /\ values.search_type \notin {"similarity", "mmr"}

\* What cls(**kwargs) raises, "none" when the object is built.
ConstructionError(cls, given, kw) ==
    LET values == FieldValues(cls, given, kw)
    IN IF ExtraForbidden(cls, given) THEN "extra fields not permitted"
       ELSE IF cls = "VectorDBQA" /\ validate_search_type(values)
            THEN "search_type of " \o values.search_type \o " not allowed."
       ELSE "none"

Construct(cls, givens, kws) ==
    /\ obj = NoObject
    /\ ctorError = "none"
    /\ \E given \in givens, kw \in kws :
         LET err == ConstructionError(cls, given, kw)
         IN /\ ctorError' = err
            /\ obj' = IF err = "none" THEN FieldValues(cls, given, kw) ELSE NoObject
    /\ UNCHANGED <<callVars, asmVars>>

\* Field assignment on the built object.  The Config sets neither
\* allow_mutation = False nor validate_assignment = True, so pydantic stores
\* the value of a declared field as given, without running the validators.
SetAttr(field, value) ==
    /\ obj # NoObject
    /\ field \in FieldsOf(obj.cls)
    /\ obj' = [obj EXCEPT ![field] = value]
    /\ UNCHANGED <<ctorError, callVars, asmVars>>

(***************************************************************************)
(* Prompts and the single-pass ("stuff") combine-documents chain.          *)
(***************************************************************************)
PageContent(d) ==
    CASE d = "d1" -> <<"Paris is the capital of France.">>
      [] d = "d2" -> <<>>
      [] d = "d3" -> <<"\n\n", "Context:\n">>
      [] d = "d4" -> <<"Rome", "\n\n">>

\* str.format on a template: every placeholder token is replaced by the
\* value bound to it, every other token is kept.
RECURSIVE Format(_, _)
Format(template, bindings) ==
    IF template = <<>> THEN <<>>
    ELSE LET tok == Head(template)
         IN (IF tok \in DOMAIN bindings THEN bindings[tok] ELSE <<tok>>)
            \o Format(Tail(template), bindings)

\* Faulty variant: a document prompt without the header.
document_prompt_no_header == <<"{page_content}">>

\* from_llm's document_prompt.
document_prompt == <<"Context:\n", "{page_content}">>

document_separator == <<"\n\n">>

RECURSIVE Join(_, _)
Join(strings, sep) ==
    IF strings = <<>> THEN <<>>
    ELSE IF Len(strings) = 1 THEN strings[1]
    ELSE strings[1] \o sep \o Join(Tail(strings), sep)

\* StuffDocumentsChain: format every document with the document prompt and
\* join the results with the separator.
assemble(D) ==
    Join([i \in 1..Len(D) |->
             Format(document_prompt, "{page_content}" :> PageContent(D[i]))],
         document_separator)

\* The question-answering prompt: placeholders for context and question.
PROMPT == <<"Use the following pieces of context.\n", "{context}",
            "\nQuestion: ", "{question}", "\nHelpful Answer:">>

\* combine_docs with a model that echoes its prompt, or whose call fails.
CombineOutcomes(D, q) ==
    {[raises |-> "none",
      answer |-> Format(PROMPT, ("{context}" :> assemble(D))
                                 @@ ("{question}" :> <<q>>))],
     [raises |-> "ModelError", answer |-> <<>>]}

(***************************************************************************)
(* _get_docs of the two subclasses.                                        *)
(***************************************************************************)
NoCall == [raises |-> "none", method |-> "none", args |-> EmptyDict]

\* A Python call f(question, k=k, **kwargs).  A keyword that is given both
\* explicitly and by the ** mapping raises TypeError before f is entered.
KeywordCall(method, q, k, kwargs) ==
    IF "k" \in DOMAIN kwargs
    THEN [NoCall EXCEPT !.raises = "TypeError"]
    ELSE [raises |-> "none", method |-> method,
          args |-> [question |-> q, k |-> k, kwargs |-> kwargs]]

RetrievalQA_get_docs(self, q) ==
    [raises |-> "none", method |-> "get_relevant_texts",
     args |-> [question |-> q]]

VectorDBQA_get_docs(self, q) ==
    IF self.search_type = "similarity"
    THEN KeywordCall("similarity_search", q, self.k, self.search_kwargs)
    ELSE IF self.search_type = "mmr"
    THEN KeywordCall("max_marginal_relevance_search", q, self.k,
                     self.search_kwargs)
    ELSE [NoCall EXCEPT !.raises =
              "search_type of " \o self.search_type \o " not allowed."]

\* self._get_docs(question): dispatch on the class of self.
get_docs(self, q) ==
    IF self.cls = "VectorDBQA" THEN VectorDBQA_get_docs(self, q)
    ELSE RetrievalQA_get_docs(self, q)

\* What the retriever or vector store does with a call: it returns a
\* sequence of documents of its choosing, or fails.
BackendOutcomes ==
    {[raises |-> "none", ret |-> s] : s \in SeqsUpTo(Documents, MaxDocs)}
        \cup {[raises |-> "BackendError", ret |-> <<>>]}

(***************************************************************************)
(* BaseRetrievalQA._call, in steps that end at its blocking calls.         *)
(***************************************************************************)
\* Faulty variant: inputs.get(self.input_key, "") in place of inputs[...].
LookupInputDefault(inp, key) ==
    [raises |-> "none", value |-> IF key \in DOMAIN inp THEN inp[key] ELSE ""]

\* inputs[self.input_key]
LookupInput(inp, key) ==
    IF key \in DOMAIN inp THEN [raises |-> "none", value |-> inp[key]]
    ELSE [raises |-> "KeyError", value |-> ""]

\* Faulty variant: the exception is caught and _call goes on to combine_docs.
SwallowError(c, e) ==
    /\ pc' = [pc EXCEPT ![c] = "combine"]
    /\ UNCHANGED error

\* An exception nothing in _call catches: it leaves _call.
Propagate(c, e) ==
    /\ pc' = [pc EXCEPT ![c] = "raised"]
    /\ error' = [error EXCEPT ![c] = e]

\* Faulty variant: the documents are kept in a slot all invocations share.
StoreDocsShared(c, ret) == docs' = [d \in Calls |-> ret]

\* docs = ... : a local of the invocation.
StoreDocs(c, ret) == docs' = [docs EXCEPT ![c] = ret]

\* Faulty variant: the source documents are returned in reverse order.
BuildResultReversed(self, ans, D) ==
    IF self.return_source_documents
    THEN DictDisplay(<< <<self.output_key, ans>>,
                        <<"source_documents",
                          [i \in 1..Len(D) |-> D[Len(D) + 1 - i]]>> >>)
    ELSE DictDisplay(<< <<self.output_key, ans>> >>)

\* Lines 111-114.
BuildResult(self, ans, D) ==
    IF self.return_source_documents
    THEN DictDisplay(<< <<self.output_key, ans>>, <<"source_documents", D>> >>)
    ELSE DictDisplay(<< <<self.output_key, ans>> >>)

\* The chain is called with inputs; line 106.
Call(c, inp) ==
    /\ obj # NoObject
    /\ pc[c] = "idle"
    /\ inputs' = [inputs EXCEPT ![c] = inp]
    /\ LET got == LookupInput(inp, obj.input_key)
       IN IF got.raises = "none"
          THEN /\ question' = [question EXCEPT ![c] = got.value]
               /\ pc' = [pc EXCEPT ![c] = "get_docs"]
               /\ UNCHANGED error
          ELSE /\ Propagate(c, got.raises)
               /\ UNCHANGED question
    /\ UNCHANGED <<obj, ctorError, docs, answer, result, backendLog,
                   combineLog, asmVars>>

\* Line 108.
GetDocs(c) ==
    /\ pc[c] = "get_docs"
    /\ LET req == get_docs(obj, question[c])
       IN \/ /\ req.raises # "none"
             /\ Propagate(c, req.raises)
             /\ UNCHANGED <<docs, backendLog>>
          \/ /\ req.raises = "none"
             /\ \E out \in BackendOutcomes :
                  /\ backendLog' =
                       [backendLog EXCEPT ![c] =
                           Append(@, [method |-> req.method, args |-> req.args,
                                      outcome |-> out])]
                  /\ IF out.raises = "none"
                     THEN /\ StoreDocs(c, out.ret)
                          /\ pc' = [pc EXCEPT ![c] = "combine"]
                          /\ UNCHANGED error
                     ELSE /\ Propagate(c, out.raises)
                          /\ UNCHANGED docs
    /\ UNCHANGED <<obj, ctorError, inputs, question, answer, result,
                   combineLog, asmVars>>

\* Lines 109-114.
Combine(c) ==
    /\ pc[c] = "combine"
    /\ \E out \in CombineOutcomes(docs[c], question[c]) :
         /\ combineLog' =
              [combineLog EXCEPT ![c] =
                  Append(@, [docs |-> docs[c], question |-> question[c],
                             outcome |-> out])]
         /\ IF out.raises = "none"
            THEN /\ answer' = [answer EXCEPT ![c] = out.answer]
                 /\ result' = [result EXCEPT ![c] =
                                  BuildResult(obj, out.answer, docs[c])]
                 /\ pc' = [pc EXCEPT ![c] = "done"]
                 /\ UNCHANGED error
            ELSE /\ Propagate(c, out.raises)
                 /\ UNCHANGED <<answer, result>>
    /\ UNCHANGED <<obj, ctorError, inputs, question, docs, backendLog, asmVars>>

(***************************************************************************)
(* The assembly on its own.                                                *)
(***************************************************************************)
Assemble ==
    /\ asmPc = "ready"
    /\ asmOut' = assemble(asmIn)
    /\ asmPc' = "done"
    /\ UNCHANGED <<obj, ctorError, callVars, asmIn>>

(***************************************************************************)
(* Specifications.                                                         *)
(***************************************************************************)
InitCalls ==
    /\ pc = [c \in Calls |-> "idle"]
    /\ inputs = [c \in Calls |-> EmptyDict]
    /\ question = [c \in Calls |-> ""]
    /\ docs = [c \in Calls |-> <<>>]
    /\ answer = [c \in Calls |-> <<>>]
    /\ result = [c \in Calls |-> EmptyDict]
    /\ error = [c \in Calls |-> "none"]
    /\ backendLog = [c \in Calls |-> <<>>]
    /\ combineLog = [c \in Calls |-> <<>>]

Init ==
    /\ obj = NoObject
    /\ ctorError = "none"
    /\ InitCalls
    /\ asmPc = "idle"
    /\ asmIn = <<>>
    /\ asmOut = <<>>

CallInputs ==
    {EmptyDict} \cup {key :> q : key \in InputKeys, q \in Questions}

\* One caller: any construction, then one invocation.
Next ==
    \/ \E cls \in {"RetrievalQA", "VectorDBQA"} :
          Construct(cls, SUBSET CtorKeywords, CtorArgs)
    \/ \E inp \in CallInputs : Call("c1", inp)
    \/ GetDocs("c1")
    \/ Combine("c1")

Spec == Init /\ [][Next]_vars

\* One caller that also assigns fields of the built object, at any time.
Assign ==
    \/ \E v \in InputKeys : SetAttr("input_key", v)
    \/ \E v \in OutputKeys : SetAttr("output_key", v)
    \/ \E v \in BOOLEAN : SetAttr("return_source_documents", v)
    \/ \E v \in KValues \cup {DefaultK} : SetAttr("k", v)
    \/ \E v \in SearchTypes : SetAttr("search_type", v)
    \/ \E v \in SearchKwargs : SetAttr("search_kwargs", v)

NextAssign == Next \/ Assign

SpecAssign == Init /\ [][NextAssign]_vars

\* Several callers of one object, none assigning its fields.
ConcGivens == SUBSET {"return_source_documents", "search_type"}
ConcArgs == {kw \in CtorArgs : /\ kw.search_type = "mmr"
                               /\ kw.return_source_documents
                               /\ kw.input_key = "query"
                               /\ kw.output_key = "result"
                               /\ kw.k = 2
                               /\ kw.search_kwargs = EmptyDict}
ConcInputs == {EmptyDict} \cup {"query" :> q : q \in Questions}

NextConc ==
    \/ \E cls \in {"RetrievalQA", "VectorDBQA"} :
          Construct(cls, ConcGivens, ConcArgs)
    \/ \E c \in Calls :
          \/ \E inp \in ConcInputs : Call(c, inp)
          \/ GetDocs(c)
          \/ Combine(c)

SpecConc == Init /\ [][NextConc]_vars

\* The assembly applied to every bounded sequence of documents.
InitAssemble ==
    /\ obj = NoObject
    /\ ctorError = "none"
    /\ InitCalls
    /\ asmPc = "ready"
    /\ asmIn \in SeqsUpTo(AsmDocuments, MaxAsmDocs)
    /\ asmOut = <<>>

NextAssemble == Assemble

SpecAssemble == InitAssemble /\ [][NextAssemble]_vars

(***************************************************************************)
(* Properties.                                                             *)
(***************************************************************************)
Recognized == {"similarity", "mmr"}

\* The step in which invocation c returns its result.
Returns(c) == pc[c] = "combine" /\ pc'[c] = "done"

\* The step in which invocation c leaves line 108.
LeavesGetDocs(c) == pc[c] = "get_docs" /\ pc'[c] # "get_docs"

Last(s) == s[Len(s)]

\* C1: whenever an invocation returns, the result holds the answer under the
\* output key, and its keys are exactly {output key} (one key) when
\* return_source_documents is false and exactly {output key,
\* "source_documents"} (two keys) when it is true, so that the fetched
\* documents are in the result iff the flag is true.
C1_ResultKeys ==
    [][\A c \in Calls :
          Returns(c) =>
            LET r == result'[c]
                flag == obj.return_source_documents
            IN /\ obj.output_key \in DOMAIN r
               /\ r[obj.output_key] = answer'[c]
               /\ DOMAIN r = {obj.output_key} \cup
                     (IF flag THEN {"source_documents"} ELSE {})
               /\ Cardinality(DOMAIN r) = (IF flag THEN 2 ELSE 1)
               /\ (flag => /\ "source_documents" \in DOMAIN r
                           /\ r["source_documents"] = docs[c])
               /\ (~flag => \A key \in DOMAIN r : r[key] # docs[c])]_vars

\* C2: when an invocation returns with return_source_documents true, the
\* source documents of its result are the sequence the one backend call of
\* this invocation returned for this invocation's question, and that same
\* sequence is what was handed to combine_docs.
C2_SourceDocuments ==
    [][\A c \in Calls :
          (Returns(c) /\ obj.return_source_documents) =>
            /\ Len(backendLog[c]) = 1
            /\ \E key \in DOMAIN inputs[c] :
                  inputs[c][key] = backendLog[c][1].args.question
            /\ "source_documents" \in DOMAIN result'[c]
            /\ result'[c]["source_documents"] = backendLog[c][1].outcome.ret
            /\ Len(combineLog'[c]) = 1
            /\ combineLog'[c][1].docs = backendLog[c][1].outcome.ret]_vars

C2_Witness ==
    /\ pc["c1"] = "done"
    /\ obj # NoObject
    /\ obj.return_source_documents
    /\ DOMAIN result["c1"] = {"result", "source_documents"}
    /\ result["c1"]["source_documents"] = <<"d2", "d1">>
    /\ backendLog["c1"][1].outcome.ret = <<"d2", "d1">>

\* C3: every _get_docs of a VectorDBQA with a recognized search type makes
\* exactly one vector store call, similarity_search for "similarity" and
\* max_marginal_relevance_search for "mmr", with (question, k, extra
\* parameters), and returns what that call returned, in its order.
C3_Routing ==
    [][\A c \in Calls :
          (LeavesGetDocs(c) /\ obj.cls = "VectorDBQA"
                            /\ obj.search_type \in Recognized) =>
            /\ Len(backendLog'[c]) = Len(backendLog[c]) + 1
            /\ Last(backendLog'[c]).method =
                 (IF obj.search_type = "similarity" THEN "similarity_search"
                  ELSE "max_marginal_relevance_search")
            /\ Last(backendLog'[c]).args =
                 [question |-> question[c], k |-> obj.k,
                  kwargs |-> obj.search_kwargs]
            /\ (Last(backendLog'[c]).outcome.raises = "none" =>
                  /\ pc'[c] = "combine"
                  /\ docs'[c] = Last(backendLog'[c]).outcome.ret)]_vars

\* C4: a construction of a VectorDBQA never yields an object whose
\* search_type is unrecognized: it fails instead; and after a failed
\* construction there is no object, no invocation and no backend call.
C4_EagerValidation ==
    /\ [][(obj = NoObject /\ ctorError = "none" /\ obj' # NoObject
              /\ obj'.cls = "VectorDBQA")
            => obj'.search_type \in Recognized]_vars
    /\ [](ctorError # "none" =>
            /\ obj = NoObject
            /\ \A c \in Calls : /\ pc[c] = "idle"
                                /\ backendLog[c] = <<>>
                                /\ combineLog[c] = <<>>)

C4_Witness ==
    /\ ctorError = "search_type of bogus not allowed."
    /\ obj = NoObject

\* C5: an invocation whose inputs lack the configured input key raises
\* KeyError (the spec's MissingInput) at once, and in that invocation no
\* backend call and no combine_docs call is made and no result is returned.
C5_MissingInput ==
    /\ [][\A c \in Calls :
            (pc[c] = "idle" /\ pc'[c] # "idle"
                /\ obj.input_key \notin DOMAIN inputs'[c])
              => (pc'[c] = "raised" /\ error'[c] = "KeyError")]_vars
    /\ [](\A c \in Calls :
            error[c] = "KeyError" =>
              /\ pc[c] = "raised"
              /\ backendLog[c] = <<>>
              /\ combineLog[c] = <<>>
              /\ result[c] = EmptyDict)

C5_Witness ==
    /\ error["c1"] = "KeyError"
    /\ pc["c1"] = "raised"
    /\ inputs["c1"] # EmptyDict
    /\ obj.input_key \notin DOMAIN inputs["c1"]

\* C6: a result is returned only after one successful backend call and one
\* successful combine_docs call; a failed fetch is followed by no
\* combine_docs call and its error is the invocation's error; a failed
\* combine_docs leaves its error as the invocation's error; a failed
\* invocation returns nothing; no call is made twice.
C6_NoPartialResult ==
    \A c \in Calls :
      /\ Len(backendLog[c]) <= 1
      /\ Len(combineLog[c]) <= 1
      /\ (result[c] # EmptyDict => pc[c] = "done")
      /\ (pc[c] = "done" =>
            /\ error[c] = "none"
            /\ result[c] # EmptyDict
            /\ Len(backendLog[c]) = 1
            /\ backendLog[c][1].outcome.raises = "none"
            /\ Len(combineLog[c]) = 1
            /\ combineLog[c][1].outcome.raises = "none")
      /\ (pc[c] = "combine" =>
            /\ Len(backendLog[c]) = 1
            /\ backendLog[c][1].outcome.raises = "none")
      /\ ((backendLog[c] # <<>> /\ backendLog[c][1].outcome.raises # "none") =>
            /\ combineLog[c] = <<>>
            /\ pc[c] = "raised"
            /\ error[c] = backendLog[c][1].outcome.raises)
      /\ ((combineLog[c] # <<>> /\ combineLog[c][1].outcome.raises # "none") =>
            /\ pc[c] = "raised"
            /\ error[c] = combineLog[c][1].outcome.raises)

C6_Witness ==
    /\ pc["c1"] = "raised"
    /\ error["c1"] = "BackendError"
    /\ Len(backendLog["c1"]) = 1
    /\ combineLog["c1"] = <<>>
    /\ result["c1"] = EmptyDict

\* Where document i of D starts in the assembled context.
RECURSIVE DocOffset(_, _)
DocOffset(D, i) ==
    IF i = 1 THEN 0
    ELSE DocOffset(D, i - 1) + 1 + Len(PageContent(D[i - 1]))
             + Len(document_separator)

\* C7: the assembled context of D is, for each document in input order, the
\* header "Context:\n" followed by the document's text body, with the
\* separator between consecutive documents and nothing else; it is the
\* empty string for the empty sequence.
C7_Assemble ==
    asmPc = "done" =>
      /\ (asmIn = <<>> => asmOut = <<>>)
      /\ (asmIn # <<>> =>
            Len(asmOut) = DocOffset(asmIn, Len(asmIn))
                            + 1 + Len(PageContent(asmIn[Len(asmIn)])))
      /\ \A i \in 1..Len(asmIn) :
            LET off == DocOffset(asmIn, i)
                body == PageContent(asmIn[i])
            IN /\ off + 1 + Len(body) <= Len(asmOut)
               /\ asmOut[off + 1] = "Context:\n"
               /\ SubSeq(asmOut, off + 2, off + 1 + Len(body)) = body
               /\ (i < Len(asmIn) =>
                     SubSeq(asmOut, off + 2 + Len(body),
                            off + 1 + Len(body) + Len(document_separator))
                       = document_separator)

C7_Witness ==
    /\ asmPc = "done"
    /\ asmIn = <<"d3", "d1", "d3">>
    /\ Len(asmOut) = 10

\* The answer an echoing model gives for documents D and question q.
EchoAnswer(D, q) ==
    <<"Use the following pieces of context.\n">> \o assemble(D)
        \o <<"\nQuestion: ", q, "\nHelpful Answer:">>

\* C8: with invocations interleaved, each returned result holds the answer
\* made from the invocation's own question and the documents its own backend
\* call returned, and those documents as its source documents; and no step
\* of an invocation changes the object's fields.
C8_NoSharedState ==
    /\ [](\A c \in Calls :
            pc[c] = "done" =>
              LET own == backendLog[c][1]
                  q == inputs[c][obj.input_key]
              IN /\ own.args.question = q
                 /\ combineLog[c][1].question = q
                 /\ combineLog[c][1].docs = own.outcome.ret
                 /\ result[c][obj.output_key] = EchoAnswer(own.outcome.ret, q)
                 /\ (obj.return_source_documents =>
                       result[c]["source_documents"] = own.outcome.ret))
    /\ [][obj # NoObject => obj' = obj]_vars

C8_Witness ==
    /\ pc["c1"] = "done"
    /\ pc["c2"] = "done"
    /\ inputs["c1"] # inputs["c2"]
    /\ backendLog["c1"][1].outcome.ret = <<"d1">>
    /\ backendLog["c2"][1].outcome.ret = <<"d2", "d1">>
    /\ obj.return_source_documents

\* C9: the search_type of a constructed VectorDBQA is always a recognized
\* value, and no invocation ends in the error of _get_docs' last branch.
C9_SearchTypeRecognized ==
    /\ (obj.cls = "VectorDBQA" => obj.search_type \in Recognized)
    /\ \A c \in Calls : error[c] # "search_type of bogus not allowed."

\* C10: the k of a constructed VectorDBQA is at least 1, and so is the k of
\* every vector store call.
C10_PositiveK ==
    /\ (obj.cls = "VectorDBQA" => obj.k >= 1)
    /\ \A c \in Calls :
         \A i \in 1..Len(backendLog[c]) :
            "k" \in DOMAIN backendLog[c][i].args =>
                backendLog[c][i].args.k >= 1

====
